---- MODULE Spec2Model ----
(***************************************************************************)
(* WISP chat protocol: wire codec (wisp_common.py), server session state   *)
(* machine (wisp_server.py), session registry, store and discovery         *)
(* responder (server.py), client transport (wisp_client.py).               *)
(*                                                                         *)
(* Text is a sequence of byte values (ASCII codes); Str turns a tuple of   *)
(* one-character strings into such a sequence.                             *)
(***************************************************************************)
EXTENDS Integers, Sequences, FiniteSets, TLC

\* ------------------------------------------------------------------------
\* Bytes and text
\* ------------------------------------------------------------------------
LowerCase == <<"a","b","c","d","e","f","g","h","i","j","k","l","m",
               "n","o","p","q","r","s","t","u","v","w","x","y","z">>
UpperCase == <<"A","B","C","D","E","F","G","H","I","J","K","L","M",
               "N","O","P","Q","R","S","T","U","V","W","X","Y","Z">>
Digits == <<"0","1","2","3","4","5","6","7","8","9">>

NUL == 0
SPACE == 32

\* ASCII code of a one-character string
Ord(c) ==
    IF \E i \in 1..26 : LowerCase[i] = c
    THEN 96 + (CHOOSE i \in 1..26 : LowerCase[i] = c)
    ELSE IF \E i \in 1..26 : UpperCase[i] = c
    THEN 64 + (CHOOSE i \in 1..26 : UpperCase[i] = c)
    ELSE IF \E i \in 1..10 : Digits[i] = c
    THEN 47 + (CHOOSE i \in 1..10 : Digits[i] = c)
    ELSE IF c = " " THEN 32
    ELSE IF c = "!" THEN 33
    ELSE IF c = "." THEN 46
    ELSE IF c = ":" THEN 58
    ELSE IF c = "?" THEN 63
    ELSE NUL

Str(t) == [i \in 1..Len(t) |-> Ord(t[i])]

\* n copies of byte b
Rep(b, n) == [i \in 1..n |-> b]

\* s[:n]
Take(s, n) == SubSeq(s, 1, IF n < Len(s) THEN n ELSE Len(s))

\* s[n:]   (0-based start, as in the source)
Drop(s, n) == SubSeq(s, n + 1, Len(s))

\* str.ljust(n): pads with spaces, never truncates
ljust(s, n) == IF Len(s) >= n THEN s ELSE s \o Rep(SPACE, n - Len(s))

\* ------------------------------------------------------------------------
\* wisp_common.py: globals, command and response codes
\* ------------------------------------------------------------------------
WISP_ARP_REQ == Str(<<"I","s"," ","a","n","y","o","n","e"," ","t","h","e","r","e","?">>)
WISP_ARP_RES == Str(<<"W","I","S","P","R","E","S",":">>)

VERSION == Str(<<"V","E","R","S">>)
AUTH == Str(<<"U","S","P","S">>)
ADD == Str(<<"A","D","D","U">>)
DEL == Str(<<"D","E","L","U">>)
LIST == Str(<<"L","I","S","T">>)
SEARCH == Str(<<"S","R","C","H">>)
CONV == Str(<<"C","O","N","V">>)
QUIT == Str(<<"Q","U","I","T">>)

\* WispRequest.valid
valid(value) == value \in {VERSION, AUTH, ADD, DEL, LIST, SEARCH, CONV, QUIT}

OK == Str(<<"O","K">>)
ERROR == Str(<<"E","R">>)

\* frame geometry
CMD_LEN == 4
FIELD_LEN == 16
TEXT_LEN == 128
REQ_LEN == 36
HDR_LEN == 6
MSG_LEN == 132

\* ------------------------------------------------------------------------
\* wisp_common.py: packet building / parsing
\* ------------------------------------------------------------------------
\* struct.pack('<I', n)
pack_u32(n) == << n % 256, (n \div 256) % 256, (n \div 65536) % 256,
                 (n \div 16777216) % 256 >>

\* struct.unpack('<I', b)[0]
unpack_u32(b) == b[1] + 256 * b[2] + 65536 * b[3] + 16777216 * b[4]

\* f'{arg}\0'.ljust(16)
pkt_field(arg) == ljust(arg \o <<NUL>>, FIELD_LEN)

build_req(cmd, arg1, arg2) == cmd \o pkt_field(arg1) \o pkt_field(arg2)

RECURSIVE res_fields(_)
res_fields(args) ==
    IF args = << >> THEN << >>
    ELSE pkt_field(Head(args)) \o res_fields(Tail(args))

build_res(code, count, args) == code \o pack_u32(count) \o res_fields(args)

build_msg(timestamp, buf) ==
    pack_u32(timestamp) \o ljust(buf \o <<NUL>>, TEXT_LEN)

\* the field handed back whole, padding and all
parse_pkt_field_raw(field) == field

\* wisp_common.parse_pkt_field: the text before the first null
parse_pkt_field(field) ==
    IF \E i \in 1..Len(field) : field[i] = NUL
    THEN SubSeq(field, 1,
                (CHOOSE i \in 1..Len(field) :
                    /\ field[i] = NUL
                    /\ \A j \in 1..(i - 1) : field[j] # NUL) - 1)
    ELSE field

\* WispMessage(text, timestamp): self.time = timestamp or int(time.time())
WispMessage(text, timestamp, now) ==
    [time |-> IF timestamp # 0 THEN timestamp ELSE now, text |-> text]

NoMsg == [time |-> 0, text |-> << >>]

\* parse_message on the bytes socket.recv(132) returned; ok = FALSE is the
\* None result (frame shorter than 132 bytes)
parse_message(msg, now) ==
    IF Len(msg) < MSG_LEN
    THEN [ok |-> FALSE, msg |-> NoMsg]
    ELSE [ok |-> TRUE,
          msg |-> WispMessage(parse_pkt_field(Drop(msg, 4)),
                              unpack_u32(Take(msg, 4)), now)]


\* ------------------------------------------------------------------------
\* server.py: DATASTORE
\* ------------------------------------------------------------------------
andrei == Str(<<"a","n","d","r","e","i">>)
cameron == Str(<<"c","a","m","e","r","o","n">>)
safa == Str(<<"s","a","f","a">>)
michael == Str(<<"m","i","c","h","a","e","l">>)
kenny == Str(<<"k","e","n","n","y">>)
colbert == Str(<<"c","o","l","b","e","r","t">>)

\* iteration order of the DATASTORE dict
StoreOrder == <<andrei, cameron, safa, michael, kenny, colbert>>
Users == {StoreOrder[i] : i \in 1..Len(StoreOrder)}

Password(u) ==
    CASE u = andrei -> Str(<<"d","o","r","i","n">>)
      [] u = cameron -> Str(<<"g","r","a","y","b","i","l","l">>)
      [] u = safa -> Str(<<"a","m","a","n">>)
      [] u = michael -> Str(<<"k","a","i","n">>)
      [] u = kenny -> Str(<<"l","i">>)
      [] u = colbert -> Str(<<"z","h","u">>)

DATASTORE ==
    [u \in Users |->
        CASE u = andrei -> <<safa, cameron, kenny, colbert>>
          [] u = cameron -> <<andrei>>
          [] u = safa -> <<andrei>>
          [] u = michael -> << >>
          [] u = kenny -> <<andrei>>
          [] u = colbert -> <<andrei>>]

\* x in list
In(x, list) == \E i \in 1..Len(list) : list[i] = x

\* list.remove(x): drops the first occurrence
Remove(list, x) ==
    LET k == CHOOSE i \in 1..Len(list) :
                 list[i] = x /\ \A j \in 1..(i - 1) : list[j] # x
    IN SubSeq(list, 1, k - 1) \o SubSeq(list, k + 1, Len(list))

\* the deletion that always takes the first entry
DelAt_head(list, i) == Tail(list)

\* del list[i]
DelAt(list, i) == SubSeq(list, 1, i - 1) \o SubSeq(list, i + 1, Len(list))

\* response payload texts
InvalidCred == Str(<<"I","n","v","a","l","i","d"," ","C","r","e","d">>)
InvalidUser == Str(<<"I","n","v","a","l","i","d"," ","U","s","e","r">>)
InvalidUsers == Str(<<"I","n","v","a","l","i","d"," ","U","s","e","r","s">>)
FriendUnknown == Str(<<"F","r","i","e","n","d"," ","U","n","k","n","o","w","n">>)
UserOffline == Str(<<"U","s","e","r"," ","o","f","f","l","i","n","e">>)
InvalidVersionResponse ==
    Str(<<"I","n","v","a","l","i","d"," ","v","e","r","s","i","o","n"," ",
          "r","e","s","p","o","n","s","e">>)
UnsupportedVersion ==
    Str(<<"U","n","s","u","p","p","o","r","t","e","d"," ","v","e","r","s","i","o","n">>)

\* Server._handle_auth: (outcome, data)
store_auth(username, password) ==
    IF username \in Users /\ Password(username) = password
    THEN [outcome |-> TRUE, data |-> << >>]
    ELSE [outcome |-> FALSE, data |-> <<InvalidCred>>]

\* Server._handle_list
store_list(db, username) ==
    IF username \notin Users
    THEN [outcome |-> FALSE, data |-> <<Str(<<"I","n","v","a","l","i","d"," ","u","s","e","r">>)>>]
    ELSE [outcome |-> TRUE, data |-> db[username]]

\* substring test of Python's "lookup in user"
Contains(text, lookup) ==
    \E i \in 0..(Len(text) - Len(lookup)) :
        SubSeq(text, i + 1, i + Len(lookup)) = lookup

\* the scan with the lookup matched against the password
RECURSIVE search_from_pw(_, _, _, _)
search_from_pw(db, owner, lookup, i) ==
    IF i > Len(StoreOrder) THEN << >>
    ELSE LET u == StoreOrder[i]
         IN (IF u # owner /\ Contains(Password(u), lookup) /\ ~In(u, db[owner])
             THEN <<u>> ELSE << >>)
            \o search_from_pw(db, owner, lookup, i + 1)

\* the for loop of Server._handle_search, from the i-th user on
RECURSIVE search_from(_, _, _, _)
search_from(db, owner, lookup, i) ==
    IF i > Len(StoreOrder) THEN << >>
    ELSE LET u == StoreOrder[i]
         IN (IF u # owner /\ Contains(u, lookup) /\ ~In(u, db[owner])
             THEN <<u>> ELSE << >>)
            \o search_from(db, owner, lookup, i + 1)

\* Server._handle_search
store_search(db, owner, lookup) ==
    [outcome |-> TRUE, data |-> search_from(db, owner, lookup, 1)]

\* the handler that adds to the caller's list only
store_add_oneway(db, owner, u) ==
    IF owner \notin Users \/ u \notin Users
    THEN [outcome |-> FALSE, data |-> <<InvalidUser>>, db |-> db]
    ELSE [outcome |-> TRUE, data |-> << >>,
          db |-> [db EXCEPT ![owner] = Append(@, u)]]

\* Server._handle_add: (outcome, data, store afterwards)
store_add(db, owner, u) ==
    IF owner \notin Users \/ u \notin Users
    THEN [outcome |-> FALSE, data |-> <<InvalidUser>>, db |-> db]
    ELSE LET d1 == [db EXCEPT ![owner] = Append(@, u)]
         IN [outcome |-> TRUE, data |-> << >>,
             db |-> [d1 EXCEPT ![u] = Append(@, owner)]]

\* Server._handle_del; fault = TRUE when the second remove raises ValueError
store_del(db, owner, u) ==
    IF owner \notin Users \/ ~In(u, db[owner])
    THEN [outcome |-> FALSE, data |-> <<InvalidUsers>>, db |-> db, fault |-> FALSE]
    ELSE LET d1 == [db EXCEPT ![owner] = Remove(@, u)]
         IN IF u \in Users /\ In(owner, d1[u])
            THEN [outcome |-> TRUE, data |-> << >>,
                  db |-> [d1 EXCEPT ![u] = Remove(@, owner)], fault |-> FALSE]
            ELSE [outcome |-> FALSE, data |-> << >>, db |-> d1, fault |-> TRUE]


\* ------------------------------------------------------------------------
\* Bounds of the model and inputs of the environment
\* ------------------------------------------------------------------------
\* connections the accept loop takes
NConn == 2
\* messages waiting in one session's msgq
MaxQ == 1
\* length of one friend list
MaxFriends == 5
\* fields of a response in the codec runs
MaxFields == 2
\* replies the discovery responder sends in one run
MaxReplies == 2
\* messages read that the order scene's log holds
MaxLog == 2

Conns == 1..NConn

\* an identity the store does not know
ghost == Str(<<"g","h","o","s","t">>)
V11 == Str(<<"1",".","1">>)
V10 == Str(<<"1",".","0">>)

\* int(time.time()) when a frame is parsed
Clock == {1528600000}
T0 == 1528000000

Hi == Str(<<"h","i">>)
Yo == Str(<<"y","o">>)

\* frames a peer may put on a session's socket while it expects requests
AllReqFrames ==
    {build_req(VERSION, v, << >>) : v \in {V11, V10}}
    \cup {build_req(AUTH, andrei, Password(andrei)),
          build_req(AUTH, cameron, Password(cameron)),
          build_req(AUTH, andrei, Password(cameron)),
          build_req(AUTH, ghost, Password(andrei))}
    \cup {build_req(c, u, << >>) : c \in {ADD, DEL}, u \in {andrei, cameron, ghost}}
    \cup {build_req(CONV, u, << >>) : u \in {andrei, cameron, safa, ghost}}
    \cup {build_req(LIST, << >>, << >>), build_req(QUIT, << >>, << >>),
          build_req(SEARCH, Str(<<"a","m">>), << >>)}
    \cup {build_req(Str(<<"X","X","X","X">>), << >>, << >>)}
    \cup {Take(build_req(LIST, << >>, << >>), REQ_LEN - 1), << >>}

\* the frames the peers of the many-connection scene send
NetReqFrames ==
    {build_req(VERSION, V11, << >>),
     build_req(AUTH, andrei, Password(andrei)),
     build_req(AUTH, cameron, Password(cameron))}
    \cup {build_req(CONV, u, << >>) : u \in {andrei, cameron, safa, ghost}}
    \cup {build_req(QUIT, << >>, << >>)}
    \cup {build_req(Str(<<"X","X","X","X">>), << >>, << >>)}

\* the frames the peers of the friend-list scene send
StoreReqFrames ==
    {build_req(VERSION, V11, << >>),
     build_req(AUTH, andrei, Password(andrei)),
     build_req(AUTH, cameron, Password(cameron)),
     build_req(LIST, << >>, << >>)}
    \cup {build_req(c, u, << >>) : c \in {ADD, DEL}, u \in {andrei, cameron, safa, ghost}}

\* the frames the peers of the message-order scene send
OrderReqFrames ==
    {build_req(VERSION, V11, << >>),
     build_req(AUTH, andrei, Password(andrei)),
     build_req(AUTH, cameron, Password(cameron))}
    \cup {build_req(CONV, u, << >>) : u \in {andrei, cameron}}

\* the frames of a peer whose messages are told apart by their text
OrderMsgFrames ==
    {build_msg(T0, Hi), build_msg(T0, Yo), build_msg(T0, << >>)}

\* frames a peer may put on a session's socket during a conversation
MsgFrames ==
    {build_msg(T0, Hi), build_msg(T0, << >>), Take(build_msg(T0, Hi), MSG_LEN - 1)}

\* ------------------------------------------------------------------------
\* State
\* ------------------------------------------------------------------------
VARIABLES
    scene,          \* the environment: "net", "session", "client", "chat", "store",
                    \* "order", "codec", "disc"
    up,             \* the server process (its main thread) is running
    acc,            \* Server.start accept loop: [pc, s]
    nconn,          \* connections accepted so far
    sessions,       \* Server._sessions
    lock,           \* holder of Server._sess_lock (0: free)
    friends,        \* DATASTORE[u]['friends']
    state,          \* WispServer._state
    user,           \* WispServer.user
    target,         \* WispServer.target
    auth_counter,   \* WispServer._auth_counter
    msgq,           \* WispServer.msgq
    alive,          \* Thread.is_alive()
    pc,             \* position of the session thread
    tmp,            \* handler argument held between two assignments
    rt,             \* Server._handle_message frame: [i, msg], and the registry and
                    \* its terminated entries as they were when the pass began
    term,           \* why the session ended
    watch,          \* the connection whose traffic is observed
    obs,            \* last request read on it and what was sent back
    c2s,            \* bytes from the client transport to connection 1
    s2c,            \* bytes from connection 1 to the client transport
    cstate,         \* WispClient.state
    cpc,            \* position of the client's foreground thread
    tpc,            \* position of the WispClient.run thread
    reqq,           \* WispClient.reqq
    resq,           \* WispClient.resq
    cfl,            \* Client._friend_list
    hlog,           \* frames sent by either side until the client leaves Listening
                    \* (client scene); messages read and written by the sessions
                    \* (order scene)
    cPdu,           \* codec run: the PDU handed to build_req / build_res / build_msg
    cWire,          \* codec run: the bytes on the wire
    cDec,           \* codec run: what the receiving side's parser returned
    cPc,            \* codec run: "new", "wire", "done"
    dAddr,          \* service_descovery: addr
    dGram,          \* service_descovery: payload of the datagram that arrived
    dData,          \* service_descovery: data
    dPc,            \* service_descovery: "recv", "test"
    dSent           \* service_descovery: the broadcasts sent, in order

srvVars == <<up, acc, nconn, sessions, lock, friends, state, user, target,
             auth_counter, msgq, alive, pc, tmp, rt, term, watch, obs>>
cliVars == <<c2s, s2c, cstate, cpc, tpc, reqq, resq, cfl, hlog>>
codecVars == <<cPdu, cWire, cDec, cPc>>
discVars == <<dAddr, dGram, dData, dPc, dSent>>
vars == <<scene, srvVars, cliVars, codecVars, discVars>>

\* Python's None, as a value no parsed field can take
None == <<NUL>>

NoRes == [code |-> << >>, data |-> << >>]
NoReq == [kind |-> "none", cmd |-> << >>, arg1 |-> << >>, arg2 |-> << >>]
NoObs == [req |-> NoReq, phase |-> "Listening", disp |-> FALSE, store |-> FALSE,
          nres |-> 0, res |-> NoRes]
NoRt == [i |-> 0, msg |-> NoMsg, reg |-> << >>, dead |-> {}]

\* the map with QUIT also allowed before login
STATE_MAP_quit(st) ==
    CASE st = "Listening" -> {VERSION}
      [] st = "Authentication" -> {AUTH, QUIT}
      [] st = "Command" -> {ADD, DEL, LIST, SEARCH, CONV, QUIT}
      [] OTHER -> {}

\* wisp_common.STATE_MAP
STATE_MAP(st) ==
    CASE st = "Listening" -> {VERSION}
      [] st = "Authentication" -> {AUTH}
      [] st = "Command" -> {ADD, DEL, LIST, SEARCH, CONV, QUIT}
      [] OTHER -> {}

\* WispServer._version_handshake: versions
versions == <<V11>>

\* the threshold test with its comparison off by one
auth_exceeded_ge(counter) == counter >= 5

\* WispServer._handle_auth: if self._auth_counter > 5
auth_exceeded(counter) == counter > 5

\* WispServer._parse_request on what self._conn.recv(36) returned
\*   kind "short": _recv saw len(msg) != size
\*   kind "bad":   WispRequest.valid(cmd) is false
parse_request(packet) ==
    IF Len(packet) # REQ_LEN
    THEN [kind |-> "short", cmd |-> << >>, arg1 |-> << >>, arg2 |-> << >>]
    ELSE IF valid(Take(packet, CMD_LEN))
    THEN [kind |-> "req", cmd |-> Take(packet, CMD_LEN),
          arg1 |-> parse_pkt_field(SubSeq(packet, CMD_LEN + 1, CMD_LEN + FIELD_LEN)),
          arg2 |-> parse_pkt_field(Drop(packet, CMD_LEN + FIELD_LEN))]
    ELSE [kind |-> "bad", cmd |-> Take(packet, CMD_LEN), arg1 |-> << >>, arg2 |-> << >>]

\* the scenes in which connection 1 is held by the client program
ClientScene == scene \in {"client", "chat"}

\* the connection the client transport holds
IsClient(s) == ClientScene /\ s = 1

AllRequests == {parse_request(f) : f \in AllReqFrames}
NetRequests == {parse_request(f) : f \in NetReqFrames}
StoreRequests == {parse_request(f) : f \in StoreReqFrames}
OrderRequests == {parse_request(f) : f \in OrderReqFrames}
AllMessages == {parse_message(f, now) : f \in MsgFrames, now \in Clock}
OrderMessages == {parse_message(f, now) : f \in OrderMsgFrames, now \in Clock}

\* the requests _parse_request can return now: it blocks in recv(36) while
\* the set is empty
Requests(s) ==
    IF IsClient(s)
    THEN (IF c2s = << >> THEN {} ELSE {parse_request(Take(c2s, REQ_LEN))})
    ELSE IF scene \in {"net", "chat"} THEN NetRequests
    ELSE IF scene = "order" THEN OrderRequests
    ELSE IF scene = "store" THEN StoreRequests ELSE AllRequests

\* what parse_message can return now, once select reports the socket readable
Messages(s) ==
    IF IsClient(s)
    THEN (IF c2s = << >> THEN {}
          ELSE {parse_message(Take(c2s, MSG_LEN), now) : now \in Clock})
    ELSE IF scene = "order" THEN OrderMessages ELSE AllMessages

\* the socket's receive buffer after recv(n) returned
Consumed(s, n) == IF IsClient(s) THEN Drop(c2s, n) ELSE c2s

\* the handshake log after a frame went out
Logged(from, bytes) ==
    IF scene = "client" /\ cstate = "Listening"
    THEN Append(hlog, [from |-> from, bytes |-> bytes])
    ELSE hlog

\* the message log after session s read (ev = "read") or wrote (ev = "wrote")
\* a message
MsgLogged(ev, s, msg) ==
    IF scene = "order"
    THEN Append(hlog, [from |-> ev, s |-> s, msg |-> msg])
    ELSE hlog

\* WispServer._send_res: the bytes written to the peer
SendRes(s, res) ==
    LET bytes == build_res(res.code, Len(res.data), res.data) IN
    IF IsClient(s)
    THEN s2c' = s2c \o bytes /\ hlog' = Logged("server", bytes)
    ELSE UNCHANGED <<s2c, hlog>>

\* self._conn.send(build_msg(msg.time, msg.text))
SendMsg(s, msg) ==
    LET bytes == build_msg(msg.time, msg.text) IN
    IF IsClient(s)
    THEN s2c' = s2c \o bytes /\ hlog' = Logged("server", bytes)
    ELSE s2c' = s2c /\ hlog' = MsgLogged("wrote", s, msg)

Response(outcome, data) == [code |-> IF outcome THEN OK ELSE ERROR, data |-> data]

\* observation of a request read by s and of the response written for it
ObsReq(s, req, disp, store, res) ==
    IF s = watch
    THEN [req |-> req, phase |-> state[s], disp |-> disp, store |-> store,
          nres |-> IF res = NoRes THEN 0 ELSE 1, res |-> res]
    ELSE obs

\* observation of a response written later for the same request
ObsRes(s, res) ==
    IF s = watch THEN [obs EXCEPT !.nres = @ + 1, !.res = res] ELSE obs


\* ------------------------------------------------------------------------
\* server.py: Server.start (accept loop); WispServer.__init__ runs the
\* version handshake in the accepting thread
\* ------------------------------------------------------------------------
Server == scene \in {"net", "session", "client", "chat", "store", "order"} /\ up

\* connections the scene's environment opens
MaxConn ==
    IF scene = "net" THEN NConn ELSE IF scene \in {"chat", "store", "order"} THEN 2 ELSE 1

\* sys.exit or an uncaught exception in the main thread: the process ends and
\* takes the daemon session threads with it
ServerExit(s, why) ==
    /\ up' = FALSE
    /\ acc' = [pc |-> "dead", s |-> s]
    /\ term' = [term EXCEPT ![s] = why]

\* socket.accept returns; WispServer.__init__ up to the first _send_res
Accept ==
    /\ Server /\ acc.pc = "accept" /\ nconn < MaxConn
    /\ IsClient(nconn + 1) => cpc = "connect"
    /\ LET s == nconn + 1
           res == Response(TRUE, versions)
       IN /\ nconn' = s
          /\ acc' = [pc |-> "handshake", s |-> s]
          /\ SendRes(s, res)
          /\ obs' = ObsRes(s, res)
    /\ UNCHANGED <<scene, up, sessions, lock, friends, state, user, target,
                   auth_counter, msgq, alive, pc, tmp, rt, term, watch>>
    /\ UNCHANGED <<c2s, cstate, cpc, tpc, reqq, resq, cfl, codecVars, discVars>>

\* _version_handshake: req = self._parse_request() and what follows
Handshake ==
    /\ Server /\ acc.pc = "handshake"
    /\ LET s == acc.s IN
       \E req \in Requests(s) :
         /\ c2s' = Consumed(s, REQ_LEN)
         /\ \/ /\ req.kind = "short"
               /\ ServerExit(s, "hs_short")
               /\ obs' = ObsReq(s, req, FALSE, FALSE, NoRes)
               /\ UNCHANGED <<state, s2c, hlog>>
            \/ /\ req.kind = "bad"
               /\ ServerExit(s, "hs_badcmd")
               /\ obs' = ObsReq(s, req, FALSE, FALSE, NoRes)
               /\ UNCHANGED <<state, s2c, hlog>>
            \/ /\ req.kind = "req" /\ req.cmd # VERSION
               /\ ServerExit(s, "hs_notversion")
               /\ LET res == Response(FALSE, <<InvalidVersionResponse>>)
                  IN /\ obs' = ObsReq(s, req, FALSE, FALSE, res)
                     /\ SendRes(s, res)
               /\ UNCHANGED state
            \/ /\ req.kind = "req" /\ req.cmd = VERSION /\ ~In(req.arg1, versions)
               /\ ServerExit(s, "hs_unsupported")
               /\ LET res == Response(FALSE, <<UnsupportedVersion>>)
                  IN /\ obs' = ObsReq(s, req, FALSE, FALSE, res)
                     /\ SendRes(s, res)
               /\ UNCHANGED state
            \/ /\ req.kind = "req" /\ req.cmd = VERSION /\ In(req.arg1, versions)
               /\ LET res == Response(TRUE, << >>)
                  IN /\ obs' = ObsReq(s, req, FALSE, FALSE, res)
                     /\ SendRes(s, res)
               /\ state' = [state EXCEPT ![s] = "Authentication"]
               /\ acc' = [pc |-> "start", s |-> s]
               /\ UNCHANGED <<up, term>>
    /\ UNCHANGED <<scene, nconn, sessions, lock, friends, user, target,
                   auth_counter, msgq, alive, pc, tmp, rt, watch>>
    /\ UNCHANGED <<cstate, cpc, tpc, reqq, resq, cfl, codecVars, discVars>>

\* server.start(): the session thread begins to run
Start ==
    /\ Server /\ acc.pc = "start"
    /\ alive' = [alive EXCEPT ![acc.s] = TRUE]
    /\ pc' = [pc EXCEPT ![acc.s] = "loop"]
    /\ acc' = [acc EXCEPT !.pc = "append"]
    /\ UNCHANGED <<scene, up, nconn, sessions, lock, friends, state, user, target,
                   auth_counter, msgq, tmp, rt, term, watch, obs>>
    /\ UNCHANGED <<cliVars, codecVars, discVars>>

\* with self._sess_lock: self._sessions.append(server)
Register ==
    /\ Server /\ acc.pc = "append" /\ lock = 0
    /\ sessions' = Append(sessions, acc.s)
    /\ acc' = [pc |-> "accept", s |-> 0]
    /\ UNCHANGED <<scene, up, nconn, lock, friends, state, user, target,
                   auth_counter, msgq, alive, pc, tmp, rt, term, watch, obs>>
    /\ UNCHANGED <<cliVars, codecVars, discVars>>


\* ------------------------------------------------------------------------
\* wisp_server.py: WispServer.run, requests (self._state != Conversation)
\* ------------------------------------------------------------------------
Running(s) == Server /\ alive[s] /\ pc[s] = "loop"

\* sys.exit, or an exception caught by run's handler: the thread ends
Exit(s, why) ==
    /\ alive' = [alive EXCEPT ![s] = FALSE]
    /\ pc' = [pc EXCEPT ![s] = "dead"]
    /\ term' = [term EXCEPT ![s] = why]

\* the untouched rest of a step that only a session's own fields change
SessFrame == UNCHANGED <<scene, up, acc, nconn, cstate, cpc, tpc, reqq, resq, cfl,
                         codecVars, discVars, watch>>

\* _recv: len(msg) != size (the log line raises, run's handler closes and exits)
ReqShort(s) ==
    /\ Running(s) /\ state[s] # "Conversation"
    /\ \E req \in Requests(s) :
         /\ req.kind = "short"
         /\ c2s' = Consumed(s, REQ_LEN)
         /\ obs' = ObsReq(s, req, FALSE, FALSE, NoRes)
         /\ Exit(s, "short")
    /\ UNCHANGED <<sessions, lock, friends, state, user, target, auth_counter,
                   msgq, tmp, rt, s2c, hlog>>
    /\ SessFrame

\* _parse_request: WispRequest.valid(cmd) is false, _handle_quit
ReqBad(s) ==
    /\ Running(s) /\ state[s] # "Conversation"
    /\ \E req \in Requests(s) :
         /\ req.kind = "bad"
         /\ c2s' = Consumed(s, REQ_LEN)
         /\ obs' = ObsReq(s, req, FALSE, FALSE, NoRes)
         /\ Exit(s, "badcmd")
    /\ UNCHANGED <<sessions, lock, friends, state, user, target, auth_counter,
                   msgq, tmp, rt, s2c, hlog>>
    /\ SessFrame

\* run: req.cmd not in STATE_MAP[self._state]; the loop goes on
ReqSkip(s) ==
    /\ Running(s) /\ state[s] # "Conversation"
    /\ \E req \in Requests(s) :
         /\ req.kind = "req" /\ req.cmd \notin STATE_MAP(state[s])
         /\ c2s' = Consumed(s, REQ_LEN)
         /\ obs' = ObsReq(s, req, FALSE, FALSE, NoRes)
    /\ UNCHANGED <<sessions, lock, friends, state, user, target, auth_counter,
                   msgq, alive, pc, tmp, rt, term, s2c, hlog>>
    /\ SessFrame

\* a request run dispatches to self._handlers[req.cmd]
Dispatched(s, req, cmd) ==
    req.kind = "req" /\ req.cmd = cmd /\ cmd \in STATE_MAP(state[s])

\* _handle_auth, up to self._state = State.Command / the counter test
ReqAuth(s) ==
    /\ Running(s) /\ state[s] # "Conversation"
    /\ \E req \in Requests(s) :
         LET r == store_auth(req.arg1, req.arg2)
         IN
         /\ Dispatched(s, req, AUTH)
         /\ c2s' = Consumed(s, REQ_LEN)
         /\ \/ /\ r.outcome
               /\ state' = [state EXCEPT ![s] = "Command"]
               /\ pc' = [pc EXCEPT ![s] = "auth_user"]
               /\ tmp' = [tmp EXCEPT ![s] = req.arg1]
               /\ obs' = ObsReq(s, req, TRUE, TRUE, NoRes)
               /\ UNCHANGED <<auth_counter, alive, term, s2c, hlog>>
            \/ /\ ~r.outcome /\ auth_exceeded(auth_counter[s] + 1)
               /\ auth_counter' = [auth_counter EXCEPT ![s] = @ + 1]
               /\ Exit(s, "auth")
               /\ obs' = ObsReq(s, req, TRUE, TRUE, NoRes)
               /\ UNCHANGED <<state, tmp, s2c, hlog>>
            \/ /\ ~r.outcome /\ ~auth_exceeded(auth_counter[s] + 1)
               /\ auth_counter' = [auth_counter EXCEPT ![s] = @ + 1]
               /\ obs' = ObsReq(s, req, TRUE, TRUE, Response(FALSE, r.data))
               /\ SendRes(s, Response(FALSE, r.data))
               /\ UNCHANGED <<state, tmp, alive, pc, term>>
    /\ UNCHANGED <<sessions, lock, friends, user, target, msgq, rt>>
    /\ SessFrame

\* _handle_auth: self.user = username; run: _send_res(OK, data)
AuthUser(s) ==
    /\ Server /\ alive[s] /\ pc[s] = "auth_user"
    /\ user' = [user EXCEPT ![s] = tmp[s]]
    /\ tmp' = [tmp EXCEPT ![s] = None]
    /\ pc' = [pc EXCEPT ![s] = "loop"]
    /\ obs' = ObsRes(s, Response(TRUE, << >>))
    /\ SendRes(s, Response(TRUE, << >>))
    /\ UNCHANGED <<sessions, lock, friends, state, target, auth_counter, msgq,
                   alive, rt, term, c2s>>
    /\ SessFrame

\* LIST: Server._handle_list(self.user)
ReqList(s) ==
    /\ Running(s) /\ state[s] # "Conversation"
    /\ \E req \in Requests(s) :
         LET r == store_list(friends, user[s])
         IN
         /\ Dispatched(s, req, LIST)
         /\ c2s' = Consumed(s, REQ_LEN)
         /\ obs' = ObsReq(s, req, TRUE, TRUE, Response(r.outcome, r.data))
         /\ SendRes(s, Response(r.outcome, r.data))
    /\ UNCHANGED <<sessions, lock, friends, state, user, target, auth_counter,
                   msgq, alive, pc, tmp, rt, term>>
    /\ SessFrame

\* SEARCH: Server._handle_search(self.user, term)
ReqSearch(s) ==
    /\ Running(s) /\ state[s] # "Conversation"
    /\ \E req \in Requests(s) :
         LET r == store_search(friends, user[s], req.arg1)
         IN
         /\ Dispatched(s, req, SEARCH)
         /\ c2s' = Consumed(s, REQ_LEN)
         /\ obs' = ObsReq(s, req, TRUE, TRUE, Response(r.outcome, r.data))
         /\ SendRes(s, Response(r.outcome, r.data))
    /\ UNCHANGED <<sessions, lock, friends, state, user, target, auth_counter,
                   msgq, alive, pc, tmp, rt, term>>
    /\ SessFrame

\* ADD: Server._handle_add(self.user, target)
ReqAdd(s) ==
    /\ Running(s) /\ state[s] # "Conversation"
    /\ \E req \in Requests(s) :
         LET r == store_add(friends, user[s], req.arg1)
         IN
         /\ Dispatched(s, req, ADD)
         /\ \A u \in Users : Len(r.db[u]) <= MaxFriends
         /\ c2s' = Consumed(s, REQ_LEN)
         /\ friends' = r.db
         /\ obs' = ObsReq(s, req, TRUE, TRUE, Response(r.outcome, r.data))
         /\ SendRes(s, Response(r.outcome, r.data))
    /\ UNCHANGED <<sessions, lock, state, user, target, auth_counter,
                   msgq, alive, pc, tmp, rt, term>>
    /\ SessFrame

\* DEL: Server._handle_del(self.user, target); a ValueError from the second
\* remove reaches run's handler, which closes the connection and exits
ReqDel(s) ==
    /\ Running(s) /\ state[s] # "Conversation"
    /\ \E req \in Requests(s) :
         LET r == store_del(friends, user[s], req.arg1)
         IN
         /\ Dispatched(s, req, DEL)
         /\ c2s' = Consumed(s, REQ_LEN)
         /\ friends' = r.db
         /\ \/ /\ ~r.fault
               /\ obs' = ObsReq(s, req, TRUE, TRUE, Response(r.outcome, r.data))
               /\ SendRes(s, Response(r.outcome, r.data))
               /\ UNCHANGED <<alive, pc, term>>
            \/ /\ r.fault
               /\ obs' = ObsReq(s, req, TRUE, TRUE, NoRes)
               /\ Exit(s, "fault")
               /\ UNCHANGED <<s2c, hlog>>
    /\ UNCHANGED <<sessions, lock, state, user, target, auth_counter,
                   msgq, tmp, rt>>
    /\ SessFrame

\* the lookup without its friend-list test
store_conv_nofriend(db, owner, tgt) ==
    IF \E i \in 1..Len(sessions) : user[sessions[i]] = tgt
    THEN [outcome |-> TRUE, data |-> << >>]
    ELSE [outcome |-> FALSE, data |-> <<UserOffline>>]

\* Server._handle_conv: (outcome, data); scans self._sessions under both locks
store_conv(db, owner, tgt) ==
    IF ~In(tgt, db[owner])
    THEN [outcome |-> FALSE, data |-> <<FriendUnknown>>]
    ELSE IF \E i \in 1..Len(sessions) : user[sessions[i]] = tgt
    THEN [outcome |-> TRUE, data |-> << >>]
    ELSE [outcome |-> FALSE, data |-> <<UserOffline>>]

\* CONV: _handle_conv up to self._state = State.Conversation
ReqConv(s) ==
    /\ Running(s) /\ state[s] # "Conversation"
    /\ lock = 0
    /\ \E req \in Requests(s) :
         LET r == store_conv(friends, user[s], req.arg1)
         IN
         /\ Dispatched(s, req, CONV)
         /\ c2s' = Consumed(s, REQ_LEN)
         /\ \/ /\ r.outcome
               /\ state' = [state EXCEPT ![s] = "Conversation"]
               /\ pc' = [pc EXCEPT ![s] = "conv_target"]
               /\ tmp' = [tmp EXCEPT ![s] = req.arg1]
               /\ obs' = ObsReq(s, req, TRUE, TRUE, NoRes)
               /\ UNCHANGED <<s2c, hlog>>
            \/ /\ ~r.outcome
               /\ obs' = ObsReq(s, req, TRUE, TRUE, Response(FALSE, r.data))
               /\ SendRes(s, Response(FALSE, r.data))
               /\ UNCHANGED <<state, pc, tmp>>
    /\ UNCHANGED <<sessions, lock, friends, user, target, auth_counter, msgq,
                   alive, rt, term>>
    /\ SessFrame

\* _handle_conv: self.target = target; run: _send_res(OK, data)
ConvTarget(s) ==
    /\ Server /\ alive[s] /\ pc[s] = "conv_target"
    /\ target' = [target EXCEPT ![s] = tmp[s]]
    /\ tmp' = [tmp EXCEPT ![s] = None]
    /\ pc' = [pc EXCEPT ![s] = "loop"]
    /\ obs' = ObsRes(s, Response(TRUE, << >>))
    /\ SendRes(s, Response(TRUE, << >>))
    /\ UNCHANGED <<sessions, lock, friends, state, user, auth_counter, msgq,
                   alive, rt, term, c2s>>
    /\ SessFrame

\* QUIT: _handle_quit, sys.exit(0)
ReqQuit(s) ==
    /\ Running(s) /\ state[s] # "Conversation"
    /\ \E req \in Requests(s) :
         /\ Dispatched(s, req, QUIT)
         /\ c2s' = Consumed(s, REQ_LEN)
         /\ obs' = ObsReq(s, req, TRUE, FALSE, NoRes)
         /\ Exit(s, "quit")
    /\ UNCHANGED <<sessions, lock, friends, state, user, target, auth_counter,
                   msgq, tmp, rt, s2c, hlog>>
    /\ SessFrame


\* ------------------------------------------------------------------------
\* wisp_server.py: WispServer.run, conversation (self._state == Conversation)
\* server.py: Server._handle_message
\* ------------------------------------------------------------------------
\* a message with text that the client has queued or sent and its session has
\* not read yet, addressed to identity t
ClientPending(t) ==
    IF ClientScene /\ target[1] = t
       /\ \/ \E i \in 1..Len(reqq) : reqq[i].kind = "msg" /\ reqq[i].text # << >>
          \/ /\ state[1] = "Conversation" /\ Len(c2s) >= MSG_LEN
             /\ parse_pkt_field(SubSeq(c2s, 5, MSG_LEN)) # << >>
    THEN 1 ELSE 0

\* messages read and not yet routed to the end, addressed to identity t, and
\* the one the client has under way
InFlight(t) ==
    Cardinality({x \in Conns : pc[x] \in {"lock", "route", "put"} /\ target[x] = t})
        + ClientPending(t)

\* messages on their way from connection c's session to the client's
\* foreground: bytes in the socket and entries of resq
Backlog(c) ==
    IF IsClient(c) THEN (Len(s2c) + MSG_LEN - 1) \div MSG_LEN + Len(resq) ELSE 0

\* the length the model lets a queue grow to
QCap == IF scene = "order" THEN MaxQ + 1 ELSE MaxQ

\* no queue a message for target[s] can reach outgrows QCap, and the message
\* log has room for one more message read
QueueRoom(s) ==
    /\ \A c \in Conns :
          user[c] \in {target[s], None}
              => Len(msgq[c]) + InFlight(target[s]) + Backlog(c) < QCap
    /\ Cardinality({i \in 1..Len(hlog) : hlog[i].from = "read"}) < MaxLog

\* the test with no text taken for the exit signal
is_exit_never(text) == FALSE

\* WispServer.run: if msg.text == ''
is_exit(text) == text = << >>

\* select: nothing to read; go on to the queue
ConvIdle(s) ==
    /\ Running(s) /\ state[s] = "Conversation"
    /\ ~IsClient(s) \/ c2s = << >>
    /\ pc' = [pc EXCEPT ![s] = "drain"]
    /\ UNCHANGED <<sessions, lock, friends, state, user, target, auth_counter,
                   msgq, alive, tmp, rt, term, obs, c2s, s2c, hlog>>
    /\ SessFrame

\* parse_message returned None: sys.exit(1)
ConvBad(s) ==
    /\ Running(s) /\ state[s] = "Conversation"
    /\ \E m \in Messages(s) :
         /\ ~m.ok
         /\ c2s' = Consumed(s, MSG_LEN)
         /\ Exit(s, "badmsg")
    /\ UNCHANGED <<sessions, lock, friends, state, user, target, auth_counter,
                   msgq, tmp, rt, obs, s2c, hlog>>
    /\ SessFrame

\* msg.text == '': self._state = State.Command
ConvLeave(s) ==
    /\ Running(s) /\ state[s] = "Conversation"
    /\ \E m \in Messages(s) :
         /\ m.ok /\ is_exit(m.msg.text)
         /\ c2s' = Consumed(s, MSG_LEN)
         /\ state' = [state EXCEPT ![s] = "Command"]
         /\ pc' = [pc EXCEPT ![s] = "drain"]
    /\ UNCHANGED <<sessions, lock, friends, user, target, auth_counter,
                   msgq, alive, tmp, rt, term, obs, s2c, hlog>>
    /\ SessFrame

\* any other text: self._msg_callback(self.target, msg)
ConvMsg(s) ==
    /\ Running(s) /\ state[s] = "Conversation"
    /\ IsClient(s) \/ QueueRoom(s)
    /\ \E m \in Messages(s) :
         /\ m.ok /\ ~is_exit(m.msg.text)
         /\ c2s' = Consumed(s, MSG_LEN)
         /\ rt' = [rt EXCEPT ![s] = [NoRt EXCEPT !.msg = m.msg]]
         /\ pc' = [pc EXCEPT ![s] = "lock"]
         /\ hlog' = MsgLogged("read", s, m.msg)
    /\ UNCHANGED <<sessions, lock, friends, state, user, target, auth_counter,
                   msgq, alive, tmp, term, obs, s2c>>
    /\ SessFrame

\* _handle_message: with self._sess_lock; i = len(self._sessions) - 1
RouteLock(s) ==
    /\ Server /\ alive[s] /\ pc[s] = "lock" /\ lock = 0
    /\ lock' = s
    /\ rt' = [rt EXCEPT ![s].i = Len(sessions), ![s].reg = sessions,
                        ![s].dead = {c \in Conns : In(c, sessions) /\ ~alive[c]}]
    /\ pc' = [pc EXCEPT ![s] = "route"]
    /\ UNCHANGED <<sessions, friends, state, user, target, auth_counter,
                   msgq, alive, tmp, term, obs, c2s, s2c, hlog>>
    /\ SessFrame

\* connection.user == receiver and connection.check_msg_state()
Deliverable(c, receiver) == user[c] = receiver /\ state[c] = "Conversation"

\* _handle_message: one pass of the loop body up to msgq.put, or the end of
\* the loop (rt[s].i is the 1-based place of self._sessions[i])
RouteCheck(s) ==
    /\ Server /\ alive[s] /\ pc[s] = "route"
    /\ LET i == rt[s].i IN
       \/ /\ i = 0
          /\ lock' = 0
          /\ rt' = [rt EXCEPT ![s] = NoRt]
          /\ pc' = [pc EXCEPT ![s] = "drain"]
          /\ UNCHANGED sessions
       \/ /\ i > 0 /\ ~alive[sessions[i]]
          /\ sessions' = DelAt(sessions, i)
          /\ rt' = [rt EXCEPT ![s].i = i - 1]
          /\ UNCHANGED <<lock, pc>>
       \/ /\ i > 0 /\ alive[sessions[i]] /\ Deliverable(sessions[i], target[s])
          /\ pc' = [pc EXCEPT ![s] = "put"]
          /\ UNCHANGED <<lock, rt, sessions>>
       \/ /\ i > 0 /\ alive[sessions[i]] /\ ~Deliverable(sessions[i], target[s])
          /\ rt' = [rt EXCEPT ![s].i = i - 1]
          /\ UNCHANGED <<lock, pc, sessions>>
    /\ UNCHANGED <<friends, state, user, target, auth_counter,
                   msgq, alive, tmp, term, obs, c2s, s2c, hlog>>
    /\ SessFrame

\* the put that goes to the front of the queue
put_front(q, msg) == <<msg>> \o q

\* queue.Queue.put
put(q, msg) == Append(q, msg)

\* connection.msgq.put(msg)
RoutePut(s) ==
    /\ Server /\ alive[s] /\ pc[s] = "put"
    /\ msgq' = [msgq EXCEPT ![sessions[rt[s].i]] = put(@, rt[s].msg)]
    /\ rt' = [rt EXCEPT ![s].i = @ - 1]
    /\ pc' = [pc EXCEPT ![s] = "route"]
    /\ UNCHANGED <<sessions, lock, friends, state, user, target, auth_counter,
                   alive, tmp, term, obs, c2s, s2c, hlog>>
    /\ SessFrame

\* the end of a pass of the loop that leaves the queue alone
Drain_skip(s) ==
    /\ Server /\ alive[s] /\ pc[s] = "drain"
    /\ pc' = [pc EXCEPT ![s] = "loop"]
    /\ UNCHANGED <<sessions, lock, friends, state, user, target, auth_counter,
                   msgq, alive, tmp, rt, term, obs, c2s, s2c, hlog>>
    /\ SessFrame

\* msg = self.msgq.get(block=False); self._conn.send(build_msg(...)); sleep
Drain(s) ==
    /\ Server /\ alive[s] /\ pc[s] = "drain"
    /\ IF msgq[s] = << >>
       THEN UNCHANGED <<msgq, s2c, hlog>>
       ELSE /\ msgq' = [msgq EXCEPT ![s] = Tail(@)]
            /\ SendMsg(s, Head(msgq[s]))
    /\ pc' = [pc EXCEPT ![s] = "loop"]
    /\ UNCHANGED <<sessions, lock, friends, state, user, target, auth_counter,
                   alive, tmp, rt, term, obs, c2s>>
    /\ SessFrame


\* ------------------------------------------------------------------------
\* Initial states
\* ------------------------------------------------------------------------
NoPdu == [kind |-> "none"]

ServerInit ==
    /\ up = TRUE
    /\ acc = [pc |-> "accept", s |-> 0]
    /\ nconn = 0
    /\ sessions = << >>
    /\ lock = 0
    /\ friends = DATASTORE
    /\ state = [s \in Conns |-> "Listening"]
    /\ user = [s \in Conns |-> None]
    /\ target = [s \in Conns |-> None]
    /\ auth_counter = [s \in Conns |-> 0]
    /\ msgq = [s \in Conns |-> << >>]
    /\ alive = [s \in Conns |-> FALSE]
    /\ pc = [s \in Conns |-> "new"]
    /\ tmp = [s \in Conns |-> None]
    /\ rt = [s \in Conns |-> NoRt]
    /\ term = [s \in Conns |-> "none"]
    /\ obs = NoObs

ClientIdle ==
    /\ c2s = << >> /\ s2c = << >>
    /\ cstate = "Listening" /\ cpc = "off" /\ tpc = "off"
    /\ reqq = << >> /\ resq = << >> /\ cfl = << >> /\ hlog = << >>

CodecIdle ==
    /\ cPdu = NoPdu /\ cWire = << >> /\ cDec = NoPdu /\ cPc = "off"

DiscIdle ==
    /\ dAddr = << >> /\ dGram = << >> /\ dData = << >> /\ dPc = "off"
    /\ dSent = << >>

\* the server with NConn peers: logins, conversations, routing
Init ==
    /\ scene = "net"
    /\ ServerInit
    /\ watch = 0
    /\ ClientIdle /\ CodecIdle /\ DiscIdle

\* the server with one peer that sends what it likes, its traffic observed
InitSession ==
    /\ scene = "session"
    /\ ServerInit
    /\ watch = 1
    /\ ClientIdle /\ CodecIdle /\ DiscIdle

Conversation(s) ==
    \/ ConvIdle(s) \/ ConvBad(s) \/ ConvLeave(s) \/ ConvMsg(s)
    \/ RouteLock(s) \/ RouteCheck(s) \/ RoutePut(s) \/ Drain(s)

Next ==
    \/ Accept \/ Handshake \/ Start \/ Register
    \/ \E s \in Conns :
         \/ ReqBad(s) \/ ReqSkip(s) \/ ReqAuth(s) \/ AuthUser(s)
         \/ ReqConv(s) \/ ConvTarget(s) \/ ReqQuit(s)
         \/ Conversation(s)

NextSession ==
    \/ Accept \/ Handshake \/ Start \/ Register
    \/ \E s \in Conns :
         \/ ReqShort(s) \/ ReqBad(s) \/ ReqSkip(s) \/ ReqAuth(s) \/ AuthUser(s)
         \/ ReqList(s) \/ ReqSearch(s) \/ ReqAdd(s) \/ ReqDel(s)
         \/ ReqConv(s) \/ ConvTarget(s) \/ ReqQuit(s)
         \/ Conversation(s)

Spec == Init /\ [][Next]_vars

SpecSession == InitSession /\ [][NextSession]_vars

TypeOK ==
    /\ \A s \in Conns : Len(msgq[s]) <= QCap
    /\ \A u \in Users : Len(friends[u]) <= MaxFriends


\* ------------------------------------------------------------------------
\* Claims on the session state machine (SpecSession: one observed session)
\* ------------------------------------------------------------------------
\* the legal command set of a phase, as the specification words it
LegalSet(p) ==
    CASE p = "Authentication" -> {AUTH}
      [] p = "Command" -> {ADD, DEL, LIST, SEARCH, CONV, QUIT}
      [] OTHER -> {}

\* the observed session reads a request in this step
ReadStep(s) == alive[s] /\ pc[s] = "loop" /\ state[s] # "Conversation" /\ obs' # obs

\* C1: a request read in phase Authentication or Command is dispatched to its
\* handler iff its command is in the phase's legal set; a request outside the
\* set, or with an unrecognized command code, ends the session, with no store
\* handler called and user, target and phase unchanged.
C1_DispatchIffLegalElseTerminate ==
    [][ LET s == watch
            q == obs'.req
            legal == q.kind = "req" /\ q.cmd \in LegalSet(state[s])
        IN (scene = "session" /\ s \in Conns /\ ReadStep(s)
              /\ state[s] \in {"Authentication", "Command"}
              /\ q.kind \in {"req", "bad"})
           => /\ obs'.disp <=> legal
              /\ ~legal => /\ ~alive'[s]
                           /\ ~obs'.store
                           /\ user'[s] = user[s]
                           /\ target'[s] = target[s]
                           /\ state'[s] = state[s] ]_vars

ValidCred(u, p) == u \in Users /\ p = Password(u)

\* C2: a session ends for failed logins exactly when its 6th failed AUTH is
\* processed; after 5 or fewer failed AUTHs it is alive in phase
\* Authentication, and an AUTH with valid credentials then sets user and
\* moves it to phase Command.
C2_SixthFailedAuthTerminates ==
    LET s == watch
        q == obs.req
    IN scene = "session" =>
       /\ auth_counter[s] <= 6
       /\ term[s] = "auth" <=> auth_counter[s] = 6
       /\ (q.kind = "req" /\ q.cmd = AUTH /\ obs.phase = "Authentication") =>
            IF ValidCred(q.arg1, q.arg2)
            THEN /\ auth_counter[s] <= 5
                 /\ alive[s] /\ state[s] = "Command"
                 /\ pc[s] = "loop" => user[s] = q.arg1 /\ obs.res = Response(TRUE, << >>)
            ELSE /\ auth_counter[s] >= 1
                 /\ state[s] = "Authentication" /\ user[s] = None
                 /\ alive[s] <=> auth_counter[s] <= 5
                 /\ alive[s] => pc[s] = "loop" /\ obs.res = Response(FALSE, <<InvalidCred>>)

\* five failed logins, then a valid one: the session is in phase Command
C2_Witness ==
    /\ scene = "session" /\ auth_counter[1] = 5
    /\ alive[1] /\ state[1] = "Command" /\ user[1] = andrei /\ pc[1] = "loop"
    /\ obs.req.cmd = AUTH

\* C6: a first request that is not a VERSION request naming a supported
\* version (an unsupported version, another valid command, an unrecognized
\* command code) gets a Response(ERROR), then the session is terminated and
\* never reaches phase Authentication.
C6_BadHandshakeGetsError ==
    LET s == watch
        q == obs.req
    IN (scene = "session" /\ obs.phase = "Listening" /\ q.kind \in {"req", "bad"}
          /\ ~(q.kind = "req" /\ q.cmd = VERSION /\ q.arg1 = V11))
       => /\ obs.nres = 1 /\ obs.res.code = ERROR
          /\ ~alive[s] /\ state[s] = "Listening"

\* ------------------------------------------------------------------------
\* Claims on registry and routing (Spec: NConn sessions)
\* ------------------------------------------------------------------------
\* some session that is alive now has logged in as t
LiveSessionOf(t) == \E c \in Conns : alive[c] /\ user[c] = t

\* every session the accept loop has started is in Server._sessions
Registered == acc.pc # "append"

\* C3: for a session in phase Command with user u, CONV(target) succeeds
\* (target recorded, phase Conversation) iff target is in u's friend list and
\* a session that is alive at that moment has user = target; otherwise
\* Response(ERROR) and the phase stays Command.  The outcome of the handler is
\* taken in the states where the accept loop has registered every session it
\* started; the step that enters Conversation is taken everywhere.
C3_ConvIffFriendAndLiveSession ==
    /\ [](\A s \in Conns : \A t \in {andrei, cameron, safa, ghost} :
            (scene = "net" /\ Running(s) /\ state[s] = "Command" /\ lock = 0
               /\ Registered)
            => (store_conv(friends, user[s], t).outcome
                  <=> In(t, friends[user[s]]) /\ LiveSessionOf(t)))
    /\ [][ \A s \in Conns :
             (state[s] = "Command" /\ state'[s] = "Conversation" /\ Registered)
             => In(tmp'[s], friends[user[s]]) /\ LiveSessionOf(tmp'[s]) ]_vars

\* C4: a message is never placed on the outbound queue of a session whose
\* phase is not Conversation, under every interleaving of the sender's route
\* pass with the target's own phase changes.
C4_NoPutOutsideConversation ==
    [][ \A c \in Conns :
          Len(msgq'[c]) > Len(msgq[c]) => state[c] = "Conversation" ]_vars

\* C10: a session's phase changes only along Listening -> Authentication
\* (handshake), Authentication -> Command (AUTH), Command -> Conversation
\* (CONV), Conversation -> Command (empty-text message); and a session ended
\* by QUIT was in phase Command when it processed the QUIT.
C10_PhaseEdges ==
    [][ \A s \in Conns :
          /\ state'[s] # state[s] =>
               \/ /\ state[s] = "Listening" /\ state'[s] = "Authentication"
                  /\ acc.pc = "handshake" /\ acc.s = s /\ acc'.pc = "start"
               \/ /\ state[s] = "Authentication" /\ state'[s] = "Command"
                  /\ pc'[s] = "auth_user"
               \/ /\ state[s] = "Command" /\ state'[s] = "Conversation"
                  /\ pc'[s] = "conv_target"
               \/ /\ state[s] = "Conversation" /\ state'[s] = "Command"
                  /\ pc[s] = "loop" /\ pc'[s] = "drain"
          /\ (term'[s] = "quit" /\ term[s] # "quit") =>
               state[s] = "Command" /\ state'[s] = "Command" ]_vars

\* a session that talked, left the conversation and then quit
C10_Witness ==
    \E s \in Conns :
        /\ scene = "net" /\ term[s] = "quit"
        /\ state[s] = "Command" /\ target[s] # None



\* ------------------------------------------------------------------------
\* wisp_client.py: WispClient, and client.py: Client.connect / Client.start
\* ------------------------------------------------------------------------
\* the self._conn.recv(16) calls of _parse_response, n fields
RECURSIVE recv_fields(_, _)
recv_fields(stream, n) ==
    IF n = 0
    THEN [data |-> << >>, rest |-> stream]
    ELSE LET r == recv_fields(Drop(stream, FIELD_LEN), n - 1)
         IN [data |-> <<parse_pkt_field(Take(stream, FIELD_LEN))>> \o r.data,
             rest |-> r.rest]

\* WispClient._parse_response on the bytes waiting in the socket;
\* ok = FALSE is the os._exit(1) of its except branch
parse_response(stream) ==
    IF Len(stream) < HDR_LEN
    THEN [ok |-> FALSE, blocked |-> FALSE, res |-> NoRes, rest |-> << >>]
    ELSE LET length == unpack_u32(SubSeq(stream, 3, HDR_LEN))
             body == Drop(stream, HDR_LEN)
         IN IF length > (Len(body) + FIELD_LEN - 1) \div FIELD_LEN
            THEN \* more fields announced than bytes have arrived: a recv(16)
                 \* finds the socket empty and does not return
                 [ok |-> FALSE, blocked |-> TRUE, res |-> NoRes, rest |-> << >>]
            ELSE LET f == recv_fields(body, length)
                 IN [ok |-> TRUE, blocked |-> FALSE,
                     res |-> [code |-> IF Take(stream, 2) = OK THEN OK ELSE ERROR,
                              data |-> f.data],
                     rest |-> f.rest]

\* a user name of sixteen characters, which Client._auth lets through
LongName == Str(<<"a","l","e","x","a","n","d","e","r","t","h","e","g","r","e","a">>)

\* what the user types at the Username / Password prompts
FgCreds ==
    IF scene = "chat"
    THEN {<<andrei, Password(andrei)>>}
    ELSE {<<andrei, Password(andrei)>>, <<andrei, Password(cameron)>>,
          <<ghost, Password(andrei)>>, <<LongName, Password(andrei)>>}

\* the peer closed the connection (the server process ended, or run's except
\* branch called self._conn.close()): recv returns b''
Closed == ~up \/ term[1] \in {"short", "fault"}

\* select reports the socket readable / a blocking recv returns
Readable == s2c # << >> \/ Closed

ClientFrame == UNCHANGED <<scene, srvVars, codecVars, discVars, watch, cfl>>

\* Client.connect -> WispClient.connect: self._conn.connect((addr, port))
CConnect ==
    /\ ClientScene /\ cpc = "off"
    /\ cpc' = "connect"
    /\ UNCHANGED <<c2s, s2c, cstate, tpc, reqq, resq, hlog>>
    /\ ClientFrame

\* _version_handshake: versions = self._parse_response() and the VERSION
\* request that answers it
CVersions ==
    /\ ClientScene /\ cpc = "connect" /\ Readable
    /\ LET r == parse_response(s2c) IN
         /\ s2c' = r.rest
         /\ IF ~r.ok
            THEN /\ cpc' = IF r.blocked THEN "stuck" ELSE "exit"
                 /\ UNCHANGED <<c2s, hlog>>
            ELSE IF Len(r.res.data) = 0
            THEN cpc' = "failed" /\ UNCHANGED <<c2s, hlog>>
            ELSE LET bytes == build_req(VERSION, r.res.data[1], << >>)
                 IN /\ c2s' = c2s \o bytes
                    /\ hlog' = Logged("client", bytes)
                    /\ cpc' = "hs_ack"
    /\ UNCHANGED <<cstate, tpc, reqq, resq>>
    /\ ClientFrame

\* _version_handshake: ack = self._parse_response() to return True, then
\* Client.start: self._wclient.start()
CAck ==
    /\ ClientScene /\ cpc = "hs_ack" /\ Readable
    /\ LET r == parse_response(s2c) IN
         /\ s2c' = r.rest
         /\ IF ~r.ok
            THEN /\ cpc' = IF r.blocked THEN "stuck" ELSE "exit"
                 /\ UNCHANGED <<cstate, tpc>>
            ELSE IF r.res.code # OK
            THEN cpc' = "failed" /\ UNCHANGED <<cstate, tpc>>
            ELSE cstate' = "Authentication" /\ cpc' = "auth" /\ tpc' = "send"
    /\ UNCHANGED <<c2s, reqq, resq, hlog>>
    /\ ClientFrame

\* Client._auth up to self._wclient.reqq.put(WispRequest(AUTH, ...))
FgAuth ==
    /\ ClientScene /\ cpc = "auth"
    /\ \E cred \in FgCreds :
         reqq' = Append(reqq, [kind |-> "req", cmd |-> AUTH,
                               arg1 |-> cred[1], arg2 |-> cred[2]])
    /\ cpc' = "wait"
    /\ UNCHANGED <<c2s, s2c, cstate, tpc, resq, hlog>>
    /\ ClientFrame

\* _blocking_request: res = self._wclient.resq.get(block=False) succeeds, and
\* the loop of Client.start that called it
FgPoll ==
    /\ ClientScene /\ cpc = "wait" /\ resq # << >>
    /\ resq' = Tail(resq)
    /\ IF Head(resq).code # OK
       THEN cpc' = "auth" /\ UNCHANGED cstate
       ELSE cpc' = "menu" /\ cstate' = "Command"
    /\ UNCHANGED <<c2s, s2c, tpc, reqq, hlog>>
    /\ ClientFrame

\* WispClient.run: req = self.reqq.get(True, 0.01) and its handler
TSend ==
    /\ ClientScene /\ tpc = "send"
    /\ IF reqq = << >>
       THEN UNCHANGED <<reqq, c2s, hlog>>
       ELSE LET req == Head(reqq)
                bytes == IF req.kind = "req"
                         THEN build_req(req.cmd, req.arg1, req.arg2)
                         ELSE build_msg(req.time, req.text)
            IN /\ reqq' = Tail(reqq)
               /\ c2s' = c2s \o bytes
               /\ hlog' = Logged("client", bytes)
    /\ tpc' = "recv"
    /\ UNCHANGED <<s2c, cstate, cpc, resq>>
    /\ ClientFrame

\* WispClient.run: select and the parse of what is readable
TRecv ==
    /\ ClientScene /\ tpc = "recv"
    /\ IF ~Readable
       THEN tpc' = "send" /\ UNCHANGED <<s2c, resq, cpc>>
       ELSE IF cstate \in {"Authentication", "Command"}
       THEN LET r == parse_response(s2c) IN
            /\ s2c' = r.rest
            /\ IF r.ok
               THEN resq' = Append(resq, r.res) /\ tpc' = "send" /\ UNCHANGED cpc
               ELSE IF r.blocked
               THEN tpc' = "stuck" /\ UNCHANGED <<resq, cpc>>
               ELSE tpc' = "exit" /\ cpc' = "exit" /\ UNCHANGED resq
       ELSE \E now \in Clock :
            LET m == parse_message(Take(s2c, MSG_LEN), now) IN
            /\ s2c' = Drop(s2c, MSG_LEN)
            /\ IF m.ok
               THEN resq' = Append(resq, m.msg) /\ tpc' = "send" /\ UNCHANGED cpc
               ELSE tpc' = "exit" /\ cpc' = "exit" /\ UNCHANGED resq
    /\ UNCHANGED <<c2s, cstate, reqq, hlog>>
    /\ ClientFrame

\* one client process against the server
InitClient ==
    /\ scene = "client"
    /\ ServerInit
    /\ watch = 0
    /\ ClientIdle /\ CodecIdle /\ DiscIdle

NextClient ==
    \/ CConnect \/ CVersions \/ CAck \/ FgAuth \/ FgPoll \/ TSend \/ TRecv
    \/ Accept \/ Handshake \/ Start \/ Register
    \/ \E s \in Conns : ReqShort(s) \/ ReqBad(s) \/ ReqAuth(s) \/ AuthUser(s)

SpecClient == InitClient /\ [][NextClient]_vars

\* C5: the version handshake exchanges, in this order and nothing else,
\* Response(OK, ["1.1"]) from the server, a VERSION request naming the first
\* listed version from the client, and Response(OK, []) from the server;
\* once the client has left Listening both sides are in Authentication (or
\* later) and neither side has given up.
HsLog ==
    << [from |-> "server", bytes |-> build_res(OK, 1, <<V11>>)],
       [from |-> "client", bytes |-> build_req(VERSION, V11, << >>)],
       [from |-> "server", bytes |-> build_res(OK, 0, << >>)] >>

C5_VersionHandshakeOrder ==
    scene = "client" =>
        /\ hlog = SubSeq(HsLog, 1, Len(hlog))
        /\ Len(hlog) = 2 => cpc = "hs_ack" /\ state[1] = "Listening"
        /\ cpc \notin {"failed"} /\ (cpc = "exit" => Closed)
        /\ term[1] \notin {"hs_short", "hs_badcmd", "hs_notversion", "hs_unsupported"}
        /\ cstate # "Listening" => hlog = HsLog /\ state[1] # "Listening"
        /\ (cpc = "auth" /\ auth_counter[1] = 0) =>
               cstate = "Authentication" /\ state[1] = "Authentication"

C5_Witness ==
    /\ scene = "client" /\ cpc = "auth" /\ auth_counter[1] = 0
    /\ cstate = "Authentication" /\ state[1] = "Authentication"
    /\ hlog = HsLog /\ c2s = << >> /\ s2c = << >>


\* ------------------------------------------------------------------------
\* One PDU through the codec: the sender's build_* and the receiver's parser
\* ------------------------------------------------------------------------
Name15 == Str(<<"a","l","e","x","a","n","d","e","r","t","h","e","g","r","e">>)
WithNul == <<Ord("a"), NUL, Ord("b")>>
Text127 == Rep(Ord("x"), TEXT_LEN - 1)
\* timestamps: zero, one, a date, the largest 31-bit value
Stamps == {0, 1, T0, 2147483647}

\* field values of zero to sixteen characters
CodecArgs == {<< >>, Hi, andrei, WithNul, Name15, LongName}

\* sequences of at most n field values
RECURSIVE FieldSeqs(_)
FieldSeqs(n) ==
    IF n = 0 THEN {<< >>}
    ELSE LET shorter == FieldSeqs(n - 1)
         IN shorter \cup {Append(d, a) : d \in shorter, a \in CodecArgs}

CodecPdus ==
    {[kind |-> "req", cmd |-> c, arg1 |-> a1, arg2 |-> a2] :
        c \in {AUTH, CONV}, a1 \in CodecArgs, a2 \in CodecArgs}
    \cup {[kind |-> "res", code |-> c, data |-> d] :
        c \in {OK, ERROR}, d \in FieldSeqs(MaxFields)}
    \cup {[kind |-> "msg", time |-> ts, text |-> x] :
        ts \in Stamps, x \in {<< >>, Hi, WithNul, Text127}}

CodecFrame == UNCHANGED <<scene, srvVars, cliVars, discVars, watch, cPdu>>

\* WispClient._handlers[WispRequest]: build_req(req.cmd, req.arg1, req.arg2)
EncodeReq ==
    /\ scene = "codec" /\ cPc = "new" /\ cPdu.kind = "req"
    /\ cWire' = build_req(cPdu.cmd, cPdu.arg1, cPdu.arg2)
    /\ cPc' = "wire"
    /\ UNCHANGED cDec /\ CodecFrame

\* WispServer._send_res: build_res(res.code, res.count, *res.data)
EncodeRes ==
    /\ scene = "codec" /\ cPc = "new" /\ cPdu.kind = "res"
    /\ cWire' = build_res(cPdu.code, Len(cPdu.data), cPdu.data)
    /\ cPc' = "wire"
    /\ UNCHANGED cDec /\ CodecFrame

\* build_msg(msg.time, msg.text)
EncodeMsg ==
    /\ scene = "codec" /\ cPc = "new" /\ cPdu.kind = "msg"
    /\ cWire' = build_msg(cPdu.time, cPdu.text)
    /\ cPc' = "wire"
    /\ UNCHANGED cDec /\ CodecFrame

\* WispServer._parse_request: self._recv(36) and the WispRequest it returns
DecodeReq ==
    /\ scene = "codec" /\ cPc = "wire" /\ cPdu.kind = "req"
    /\ cDec' = parse_request(Take(cWire, REQ_LEN))
    /\ cWire' = Drop(cWire, REQ_LEN)
    /\ cPc' = "done"
    /\ CodecFrame

\* WispClient._parse_response
DecodeRes ==
    /\ scene = "codec" /\ cPc = "wire" /\ cPdu.kind = "res"
    /\ LET r == parse_response(cWire) IN
         /\ cDec' = IF r.ok
                    THEN [kind |-> "res", code |-> r.res.code, data |-> r.res.data]
                    ELSE [kind |-> "exit"]
         /\ cWire' = r.rest
    /\ cPc' = "done"
    /\ CodecFrame

\* wisp_common.parse_message: socket.recv(132) and the WispMessage it returns
DecodeMsg ==
    /\ scene = "codec" /\ cPc = "wire" /\ cPdu.kind = "msg"
    /\ \E now \in Clock :
         LET m == parse_message(Take(cWire, MSG_LEN), now) IN
         cDec' = IF m.ok
                 THEN [kind |-> "msg", time |-> m.msg.time, text |-> m.msg.text]
                 ELSE [kind |-> "none"]
    /\ cWire' = Drop(cWire, MSG_LEN)
    /\ cPc' = "done"
    /\ CodecFrame

InitCodec ==
    /\ scene = "codec"
    /\ ServerInit
    /\ watch = 0
    /\ ClientIdle /\ DiscIdle
    /\ cPdu \in CodecPdus /\ cWire = << >> /\ cDec = NoPdu /\ cPc = "new"

NextCodec ==
    \/ EncodeReq \/ EncodeRes \/ EncodeMsg
    \/ DecodeReq \/ DecodeRes \/ DecodeMsg

SpecCodec == InitCodec /\ [][NextCodec]_vars

\* the text of a field up to its first null
UpToNull(f) ==
    IF \A i \in 1..Len(f) : f[i] # NUL THEN f
    ELSE SubSeq(f, 1, (CHOOSE i \in 1..Len(f) :
                          f[i] = NUL /\ \A j \in 1..(i - 1) : f[j] # NUL) - 1)

\* the PDU a round trip is expected to give back
Expected(p) ==
    CASE p.kind = "req" ->
           [kind |-> "req", cmd |-> p.cmd,
            arg1 |-> UpToNull(p.arg1), arg2 |-> UpToNull(p.arg2)]
      [] p.kind = "res" ->
           [kind |-> "res", code |-> p.code,
            data |-> [i \in 1..Len(p.data) |-> UpToNull(p.data[i])]]
      [] p.kind = "msg" ->
           [kind |-> "msg", time |-> p.time, text |-> UpToNull(p.text)]

\* C7: codec round trip. Every request (arguments of 0..16 characters),
\* every response (OK or ERROR, fields of 0..16 characters) and every message
\* (any timestamp, 0 included, text of 0..127 characters) decodes to itself,
\* each field cut at its first null.
C7_CodecRoundTrip ==
    (scene = "codec" /\ cPc = "done") => cDec = Expected(cPdu)

\* C8: encoded frame lengths are fixed: 36 bytes for a request, 6 + 16*count
\* for a response, 132 for a message, for fields of 0..16 characters and
\* text of 0..127 characters.
C8_FrameLengths ==
    (scene = "codec" /\ cPc = "wire") =>
        Len(cWire) = CASE cPdu.kind = "req" -> REQ_LEN
                       [] cPdu.kind = "res" -> HDR_LEN + FIELD_LEN * Len(cPdu.data)
                       [] cPdu.kind = "msg" -> MSG_LEN


\* ------------------------------------------------------------------------
\* server.py: Server.service_descovery
\* ------------------------------------------------------------------------
\* textual IPv4 addresses temp.getsockname()[0] may give
Addrs == {Str(<<"1","0",".","0",".","0",".","5">>),
          Str(<<"1","9","2",".","1","6","8",".","1",".","2","0">>)}

\* payloads of the datagrams that reach the port
Datagrams ==
    {Take(WISP_ARP_REQ, n) : n \in 0..Len(WISP_ARP_REQ)}
    \cup {WISP_ARP_REQ \o <<Ord("!")>>, WISP_ARP_REQ \o WISP_ARP_REQ}
    \cup {[WISP_ARP_REQ EXCEPT ![k] = Ord("x")] : k \in {1, Len(WISP_ARP_REQ)}}
    \cup {WISP_ARP_RES \o a : a \in Addrs}

DiscFrame == UNCHANGED <<scene, srvVars, cliVars, codecVars, watch, dAddr>>

\* data = udp.recv(len(wcom.WISP_ARP_REQ)): a longer datagram is cut to the
\* buffer size, the rest of it discarded
DiscRecv ==
    /\ scene = "disc" /\ dPc = "recv" /\ Len(dSent) < MaxReplies
    /\ \E g \in Datagrams :
         /\ dGram' = g
         /\ dData' = Take(g, Len(WISP_ARP_REQ))
    /\ dPc' = "test"
    /\ UNCHANGED dSent /\ DiscFrame

\* if data == wcom.WISP_ARP_REQ: udp.sendto(WISP_ARP_RES + addr.encode(), ...)
DiscTest ==
    /\ scene = "disc" /\ dPc = "test"
    /\ dSent' = IF dData = WISP_ARP_REQ
                THEN Append(dSent, WISP_ARP_RES \o dAddr)
                ELSE dSent
    /\ dPc' = "recv"
    /\ UNCHANGED <<dGram, dData>> /\ DiscFrame

InitDisc ==
    /\ scene = "disc"
    /\ ServerInit
    /\ watch = 0
    /\ ClientIdle /\ CodecIdle
    /\ dAddr \in Addrs /\ dGram = << >> /\ dData = << >> /\ dPc = "recv"
    /\ dSent = << >>

NextDisc == DiscRecv \/ DiscTest

SpecDisc == InitDisc /\ [][NextDisc]_vars

\* C9: for every datagram received, a broadcast reply (WISPRES: followed by
\* the server's address) is sent iff the payload is exactly the probe; any
\* other payload, a longer one that starts with the probe included, gets no
\* reply.
C9_ReplyIffExactProbe ==
    [][ (scene = "disc" /\ dPc = "test") =>
            IF dGram = WISP_ARP_REQ
            THEN dSent' = Append(dSent, WISP_ARP_RES \o dAddr)
            ELSE dSent' = dSent ]_vars


\* ------------------------------------------------------------------------
\* client.py: the main menu and a conversation, against the server and one
\* other peer (connection 2)
\* ------------------------------------------------------------------------
\* str(None), which build_req formats for an argument left out
NoneText == Str(<<"N","o","n","e">>)

\* WispRequest(cmd, arg1) as WispClient's handler will send it
WispRequest(cmd, arg1) ==
    [kind |-> "req", cmd |-> cmd, arg1 |-> arg1, arg2 |-> NoneText]

\* the entry of resq is a WispResponse (it has .code and .data)
IsResponse(v) == "code" \in DOMAIN v

\* the friends the user picks from the menu of _talk
TalkChoices == {cameron, safa}

\* the lines the user types during a conversation
Lines == {Hi, << >>}

\* _draw_main_menu -> _friends: _blocking_request(LIST) up to reqq.put
FgList ==
    /\ scene = "chat" /\ cpc = "menu"
    /\ reqq' = Append(reqq, WispRequest(LIST, NoneText))
    /\ cpc' = "wait_list"
    /\ UNCHANGED <<c2s, s2c, cstate, tpc, resq, hlog, cfl>>
    /\ UNCHANGED <<scene, srvVars, codecVars, discVars>>

\* _blocking_request: resq.get succeeds; _friends: self._friend_list = res.data
\* (a WispMessage has no .data: AttributeError ends the foreground thread)
FgListRes ==
    /\ scene = "chat" /\ cpc = "wait_list" /\ resq # << >>
    /\ resq' = Tail(resq)
    /\ IF IsResponse(Head(resq))
       THEN cfl' = Head(resq).data /\ cpc' = "choose"
       ELSE cpc' = "crash" /\ UNCHANGED cfl
    /\ UNCHANGED <<c2s, s2c, cstate, tpc, reqq, hlog>>
    /\ UNCHANGED <<scene, srvVars, codecVars, discVars>>

\* _talk: _blocking_request(CONV, self._friend_list[index]) up to reqq.put
FgTalk ==
    /\ scene = "chat" /\ cpc = "choose"
    /\ \E i \in 1..Len(cfl) :
         /\ cfl[i] \in TalkChoices
         /\ reqq' = Append(reqq, WispRequest(CONV, cfl[i]))
    /\ cpc' = "wait_conv"
    /\ UNCHANGED <<c2s, s2c, cstate, tpc, resq, hlog, cfl>>
    /\ UNCHANGED <<scene, srvVars, codecVars, discVars>>

\* _blocking_request: resq.get succeeds; _talk: response.code == OK sets
\* self._wclient.state = State.Conversation (a WispMessage has no .code)
FgTalkRes ==
    /\ scene = "chat" /\ cpc = "wait_conv" /\ resq # << >>
    /\ resq' = Tail(resq)
    /\ IF ~IsResponse(Head(resq))
       THEN cpc' = "crash" /\ UNCHANGED cstate
       ELSE IF Head(resq).code = OK
       THEN cpc' = "conv" /\ cstate' = "Conversation"
       ELSE cpc' = "menu" /\ UNCHANGED cstate
    /\ UNCHANGED <<c2s, s2c, tpc, reqq, hlog, cfl>>
    /\ UNCHANGED <<scene, srvVars, codecVars, discVars>>

\* _quit: reqq.put(WispRequest(QUIT)); sleep
FgQuit ==
    /\ scene = "chat" /\ cpc = "choose"
    /\ reqq' = Append(reqq, WispRequest(QUIT, NoneText))
    /\ cpc' = "quit"
    /\ UNCHANGED <<c2s, s2c, cstate, tpc, resq, hlog, cfl>>
    /\ UNCHANGED <<scene, srvVars, codecVars, discVars>>

\* _quit: sys.exit(0) ends the process and its daemon transport thread
FgQuitExit ==
    /\ scene = "chat" /\ cpc = "quit"
    /\ cpc' = "exit" /\ tpc' = "exit"
    /\ UNCHANGED <<c2s, s2c, cstate, reqq, resq, hlog, cfl>>
    /\ UNCHANGED <<scene, srvVars, codecVars, discVars>>

\* _async_conv: one pass of the loop in which a line was read; the line goes
\* to reqq, one entry of resq, if there is one, is printed, and an empty
\* line ends the loop (a line is read once the previous one has been sent)
FgConvLine ==
    /\ scene = "chat" /\ cpc = "conv"
    /\ reqq = << >> /\ c2s = << >>
    /\ \E line \in Lines, now \in Clock :
         /\ line # << >> => QueueRoom(1)
         /\ reqq' = Append(reqq, [kind |-> "msg", time |-> WispMessage(line, 0, now).time,
                                  text |-> line])
         /\ cpc' = IF line = << >> THEN "conv_exit" ELSE "conv"
    /\ resq' = IF resq = << >> THEN resq ELSE Tail(resq)
    /\ UNCHANGED <<c2s, s2c, cstate, tpc, hlog, cfl>>
    /\ UNCHANGED <<scene, srvVars, codecVars, discVars>>

\* _async_conv: a pass in which no line was read and resq had an entry
FgConvGet ==
    /\ scene = "chat" /\ cpc = "conv" /\ resq # << >>
    /\ resq' = Tail(resq)
    /\ UNCHANGED <<c2s, s2c, cstate, cpc, tpc, reqq, hlog, cfl>>
    /\ UNCHANGED <<scene, srvVars, codecVars, discVars>>

\* _talk: self._wclient.state = State.Command, back in _draw_main_menu
FgConvExit ==
    /\ scene = "chat" /\ cpc = "conv_exit"
    /\ cstate' = "Command" /\ cpc' = "menu"
    /\ UNCHANGED <<c2s, s2c, tpc, reqq, resq, hlog, cfl>>
    /\ UNCHANGED <<scene, srvVars, codecVars, discVars>>

\* one client process, the server, and one other peer; the client's session
\* is the observed one
InitChat ==
    /\ scene = "chat"
    /\ ServerInit
    /\ watch = 1
    /\ ClientIdle /\ CodecIdle /\ DiscIdle

NextChat ==
    \/ CConnect \/ CVersions \/ CAck \/ FgAuth \/ FgPoll \/ TSend \/ TRecv
    \/ FgList \/ FgListRes \/ FgTalk \/ FgTalkRes \/ FgQuit \/ FgQuitExit
    \/ FgConvLine \/ FgConvGet \/ FgConvExit
    \/ Accept \/ Handshake \/ Start \/ Register
    \/ \E s \in Conns :
         \/ ReqBad(s) \/ ReqAuth(s) \/ AuthUser(s) \/ ReqList(s)
         \/ ReqConv(s) \/ ConvTarget(s) \/ ReqQuit(s)
         \/ Conversation(s)

SpecChat == InitChat /\ [][NextChat]_vars


\* ------------------------------------------------------------------------
\* Claims on the client's foreground thread (SpecChat)
\* ------------------------------------------------------------------------
\* the command of the request a _blocking_request call is waiting on
Awaited ==
    CASE cpc = "wait" -> AUTH
      [] cpc = "wait_list" -> LIST
      [] cpc = "wait_conv" -> CONV
      [] OTHER -> << >>

\* the step in which _blocking_request returns Head(resq)
BlockingReturn ==
    /\ scene = "chat" /\ cpc \in {"wait", "wait_list", "wait_conv"}
    /\ resq # << >> /\ resq' = Tail(resq)

\* C17: the value _blocking_request returns to the foreground is the response
\* the server wrote for the request that call sent, never a message left on
\* (or arriving on) the response queue.
C17_BlockingRequestGetsItsResponse ==
    [][BlockingReturn =>
          /\ IsResponse(Head(resq))
          /\ obs.req.cmd = Awaited /\ obs.nres = 1
          /\ Head(resq) = obs.res]_vars


\* ------------------------------------------------------------------------
\* Claims on a session in a conversation (SpecChat: the client's session reads
\* the bytes the client wrote)
\* ------------------------------------------------------------------------
\* the client's session, in phase Conversation, takes a whole frame off its socket
ConvRead ==
    /\ scene = "chat" /\ state[1] = "Conversation" /\ pc[1] = "loop"
    /\ Len(c2s) >= MSG_LEN /\ c2s' = Drop(c2s, MSG_LEN)

\* the MessagePDU in that frame
ConvFrame == parse_message(Take(c2s, MSG_LEN), CHOOSE now \in Clock : TRUE).msg

\* the session is inside Server._handle_message
Routing(s) == pc[s] \in {"lock", "route", "put"}

\* C18: a session in phase Conversation that reads a MessagePDU with empty
\* text goes to phase Command, routes nothing and sends no response; one that
\* reads any other text invokes the routing operation exactly once, with its
\* recorded target as receiver and that message as payload, and stays in
\* phase Conversation.
C18_EmptyTextLeavesElseRoutesOnce ==
    [][/\ ConvRead =>
            IF ConvFrame.text = << >>
            THEN /\ state'[1] = "Command" /\ ~Routing(1)'
                 /\ msgq' = msgq /\ s2c' = s2c /\ obs' = obs
            ELSE /\ state'[1] = "Conversation" /\ pc'[1] = "lock"
                 /\ rt'[1].msg = ConvFrame
                 /\ target[1] # None /\ target'[1] = target[1]
       /\ \A s \in Conns : scene = "chat" =>
            \* a pass begins only with a message just read in a conversation
            /\ (Routing(s)' /\ ~Routing(s)) =>
                   /\ state[s] = "Conversation" /\ pc[s] = "loop"
                   /\ rt'[s].msg.text # << >>
                   /\ s = 1 => ConvRead
            \* during the pass receiver, payload and phase stay as they are
            /\ Routing(s) =>
                   /\ target'[s] = target[s] /\ state'[s] = state[s]
                   /\ Routing(s)' => rt'[s].msg = rt[s].msg
                   /\ state[s] = "Conversation"
            \* only a pass puts a message on a queue: its payload, and on a
            \* queue of the receiver
            /\ \A c \in Conns : Len(msgq'[c]) > Len(msgq[c]) =>
                   \E r \in Conns :
                       /\ pc[r] = "put" /\ user[c] = target[r]
                       /\ msgq'[c] = Append(msgq[c], rt[r].msg)]_vars

\* the client's "hi" is being routed to cameron by the client's session
C18_Witness ==
    /\ scene = "chat" /\ pc[1] = "put" /\ state[1] = "Conversation"
    /\ target[1] = cameron /\ user[sessions[rt[1].i]] = cameron
    /\ rt[1].msg.text = Hi /\ c2s = << >>


\* ------------------------------------------------------------------------
\* Claims on what other threads can see of a session (Spec)
\* ------------------------------------------------------------------------
\* C11: in every state another thread can observe, a session in phase
\* Conversation has a target, and a session in phase Command or Conversation
\* has a user.
C11_TargetAndUserSet ==
    \A s \in Conns :
        scene = "net" =>
            /\ state[s] = "Conversation" => target[s] # None
            /\ state[s] \in {"Command", "Conversation"} => user[s] # None

\* the session is an entry of Server._sessions
InRegistry(s) == In(s, sessions)

\* the session's thread has ended
Terminated(s) == term[s] # "none"

\* C12: a session is in the registry exactly while it is alive: it is
\* registered before it processes any request, so a session that has logged
\* in is always found by a lookup, and once it has terminated it is removed,
\* eventually, whatever the other sessions do.
C12_RegistryLifetime ==
    /\ [](\A s \in Conns :
            (scene = "net" /\ user[s] # None /\ ~Terminated(s)) => InRegistry(s))
    /\ \A s \in Conns : (scene = "net" /\ Terminated(s)) ~> ~InRegistry(s)


\* ------------------------------------------------------------------------
\* Claims on requests and their responses (SpecSession)
\* ------------------------------------------------------------------------
\* the observed session has finished with the request it read last: it is
\* back at the top of its loop, or its thread has ended
Settled(s) == pc[s] \in {"loop", "dead"}

\* C13: for every request dispatched in phase Authentication or Command
\* other than QUIT, a failed AUTH that ends the session included, the session
\* sends exactly one response before it reads the next request or
\* terminates, OK iff the handler's outcome is true (for AUTH: iff the
\* credentials are valid); for QUIT it sends nothing and terminates.
C13_ExactlyOneResponse ==
    LET s == watch
        q == obs.req
    IN (scene = "session" /\ obs.disp /\ Settled(s)
          /\ obs.phase \in {"Authentication", "Command"})
       => IF q.cmd = QUIT
          THEN obs.nres = 0 /\ ~alive[s]
          ELSE /\ obs.nres = 1
               /\ obs.res.code \in {OK, ERROR}
               /\ q.cmd = AUTH => (obs.res.code = OK <=> ValidCred(q.arg1, q.arg2))

\* the request is an ADD, DEL or CONV that must fail for session s: ADD of an
\* unknown identity, DEL of an identity that is not a friend, CONV to an
\* identity that is not a friend or that no session has logged in as
MustFail(s, q) ==
    /\ q.kind = "req"
    /\ \/ q.cmd = ADD /\ q.arg1 \notin Users
       \/ q.cmd = DEL /\ ~In(q.arg1, friends[user[s]])
       \/ q.cmd = CONV /\ (~In(q.arg1, friends[user[s]])
                             \/ \A c \in Conns : user[c] # q.arg1)

AcceptWaitsOnPeer == acc.pc = "handshake"

\* C15: sessions are independent. Whatever one peer does or fails to do,
\* the version handshake included, the accept loop never depends on that
\* peer to accept and register further connections, and no other session is
\* stopped: the process with its session threads keeps running.
C15_SessionsIndependent ==
    scene = "net" => up /\ ~AcceptWaitsOnPeer


\* ------------------------------------------------------------------------
\* Claims on the store handlers (SpecSession)
\* ------------------------------------------------------------------------
\* the observed session, logged in as cameron, has been served SEARCH("am")
\* against the initial store
SearchAmByCameron ==
    /\ scene = "session" /\ friends = DATASTORE
    /\ user[watch] = cameron /\ obs.phase = "Command" /\ obs.disp
    /\ obs.req.cmd = SEARCH /\ obs.req.arg1 = Str(<<"a","m">>)

\* C16 as stated: SEARCH("am") from cameron against the initial store returns
\* Response(OK, ["safa"]).
C16_SearchAmGivesSafa ==
    SearchAmByCameron => obs.res = Response(TRUE, <<safa>>)

\* C16 as the code has it: SEARCH("am") from cameron against the initial
\* store returns Response(OK, []): the phrase is matched against the user
\* names, and the only name that contains "am" is cameron, the caller.
C16_SearchAmGivesNone ==
    SearchAmByCameron => obs.nres = 1 /\ obs.res = Response(TRUE, << >>)

C16_Witness ==
    SearchAmByCameron /\ alive[1] /\ pc[1] = "loop" /\ obs.res = Response(TRUE, << >>)


\* ------------------------------------------------------------------------
\* Claims on the registry sweep of Server._handle_message (Spec)
\* ------------------------------------------------------------------------
\* the step that ends a pass of session s: the loop is over, the lock released
PassEnds(s) == scene = "net" /\ pc[s] = "route" /\ rt[s].i = 0 /\ pc'[s] = "drain"

\* the entries of list that are kept, in the order of list
Kept(list, keep) == SelectSeq(list, LAMBDA c : c \in keep)

NoDuplicates(list) ==
    \A i, j \in 1..Len(list) : i # j => list[i] # list[j]

\* C20: after any sequence of ADD and DEL requests every friend list of the
\* store is a set: no identity occurs twice in a user's list, also after an
\* ADD of an identity that is a friend already.
C20_FriendListsAreSets ==
    scene = "session" => \A u \in Users : NoDuplicates(friends[u])


\* ------------------------------------------------------------------------
\* The friend lists under ADD and DEL from two sessions
\* ------------------------------------------------------------------------
\* two peers that log in and then send LIST, ADD and DEL as they like
InitStore ==
    /\ scene = "store"
    /\ ServerInit
    /\ watch = 0
    /\ ClientIdle /\ CodecIdle /\ DiscIdle

NextStore ==
    \/ Accept \/ Handshake \/ Start \/ Register
    \/ \E s \in Conns :
         \/ ReqSkip(s) \/ ReqAuth(s) \/ AuthUser(s)
         \/ ReqList(s) \/ ReqAdd(s) \/ ReqDel(s)

SpecStore == InitStore /\ [][NextStore]_vars

\* list.count(x)
RECURSIVE Count(_, _)
Count(list, x) ==
    IF list = << >> THEN 0
    ELSE (IF Head(list) = x THEN 1 ELSE 0) + Count(Tail(list), x)

\* C21: friendship stays mutual: from the initial store, after any
\* interleaving of ADD and DEL requests from any sessions, b occurs in a's
\* friend list as many times as a occurs in b's, for all a and b; so a DEL
\* that passes its friend test removes both directions and never faults
\* half-way.
C21_FriendshipMutual ==
    scene = "store" =>
        /\ \A a, b \in Users : Count(friends[a], b) = Count(friends[b], a)
        /\ \A s \in Conns : term[s] # "fault"

\* cameron has dropped andrei and safa has been added to cameron's list, by
\* requests of two sessions
C21_Witness ==
    /\ scene = "store" /\ user[1] # user[2] /\ None \notin {user[1], user[2]}
    /\ Count(friends[cameron], andrei) = 0 /\ Count(friends[andrei], cameron) = 0
    /\ Count(friends[cameron], safa) = 1 /\ Count(friends[safa], cameron) = 1


\* ------------------------------------------------------------------------
\* Progress of a session in a conversation (SpecChatLive)
\* ------------------------------------------------------------------------
\* the chat scene with its threads scheduled: every session thread that can
\* take a step into or of its conversation loop takes one (the loop of WispServer.run
\* never waits but for Server._sess_lock), and a thread that waits for the
\* lock gets it (a holder releases it at the end of its pass and then sleeps)
SpecChatLive ==
    /\ SpecChat
    /\ \A s \in Conns :
          WF_vars(ConvTarget(s) \/ Conversation(s)) /\ SF_vars(RouteLock(s))

\* the session's thread runs and its phase is Conversation
InConv(s) == up /\ alive[s] /\ state[s] = "Conversation"

\* the head of the outbound queue of s is taken and written to its socket
Written(s) ==
    /\ msgq[s] # << >> /\ msgq'[s] = Tail(msgq[s])
    /\ IsClient(s) => s2c' = s2c \o build_msg(Head(msgq[s]).time, Head(msgq[s]).text)

\* C22: while a session stays in phase Conversation, every message on its
\* outbound queue is eventually written to its socket (the queue is first in,
\* first out, and its head keeps being written for as long as it is not
\* empty), and every whole MessagePDU on its socket is eventually read;
\* traffic in one direction does not hold up the other.
C22_BothDirectionsProgress ==
    /\ \A s \in Conns :
          \/ <>[](~InConv(s) \/ msgq[s] = << >>)
          \/ []<><<Written(s)>>_vars
    /\ (InConv(1) /\ Len(c2s) >= MSG_LEN) ~> (~InConv(1) \/ Len(c2s) < MSG_LEN)

\* the client's session has a message of its own to read and one to write
C22_Witness ==
    /\ scene = "chat" /\ InConv(1) /\ pc[1] = "loop"
    /\ Len(c2s) >= MSG_LEN /\ msgq[1] # << >>


\* ------------------------------------------------------------------------
\* Claims on who talks to whom (Spec)
\* ------------------------------------------------------------------------
\* session r puts the message it is routing on the queue of session c
PutBy(r, c) ==
    /\ pc[r] = "put" /\ sessions[rt[r].i] = c
    /\ msgq'[c] = Append(msgq[c], rt[r].msg)

\* C23: conversations are pairwise: whenever a message is placed on the
\* outbound queue of a session, the user of the session that sent it is that
\* session's current target.
C23_ConversationsPairwise ==
    [][\A c \in Conns :
          (scene = "net" /\ msgq'[c] # msgq[c] /\ Len(msgq'[c]) > Len(msgq[c])) =>
              \E r \in Conns : PutBy(r, c) /\ user[r] = target[c]]_vars


\* C24: no message crosses conversations: a session whose phase is not
\* Conversation has an empty outbound queue whenever it is at the top of its
\* loop (the pass that reads the empty exit message still takes one message
\* off the queue before it gets there).
C24_QueueEmptyOutsideConversation ==
    \A s \in Conns :
        (scene = "net" /\ pc[s] = "loop" /\ state[s] # "Conversation")
            => msgq[s] = << >>


\* ------------------------------------------------------------------------
\* Claims on the client transport's decoding (SpecChat)
\* ------------------------------------------------------------------------
\* the frame at the head of the stream was sent by _send_res: it begins with a
\* response code (a message begins with its time stamp, and no time stamp of
\* Clock or T0 packs to the bytes of a code)
SentAsResponse(stream) == Take(stream, 2) \in {OK, ERROR}

\* WispClient.run finds the socket readable, with bytes in it, and decodes
TransportDecodes == scene = "chat" /\ tpc = "recv" /\ s2c # << >> /\ s2c' # s2c

\* C25: the client transport decodes every incoming frame as the kind the
\* server sent: a frame sent as a message is never decoded as a response and
\* a frame sent as a response is never decoded as a message, under every
\* interleaving of the session, the peer's routed messages and the
\* foreground's changes of the client phase.
C25_DecodedAsSent ==
    [][TransportDecodes =>
          (cstate \in {"Authentication", "Command"} <=> SentAsResponse(s2c))]_vars


\* ------------------------------------------------------------------------
\* The order of messages between two sessions (SpecOrder)
\* ------------------------------------------------------------------------
\* two peers whose messages differ in their text; every message a session
\* reads and every message it writes to its socket is logged
InitOrder ==
    /\ scene = "order"
    /\ ServerInit
    /\ watch = 0
    /\ ClientIdle /\ CodecIdle /\ DiscIdle

NextOrder ==
    \/ Accept \/ Handshake \/ Start \/ Register
    \/ \E s \in Conns :
         \/ ReqAuth(s) \/ AuthUser(s) \/ ReqConv(s) \/ ConvTarget(s)
         \/ ConvIdle(s) \/ ConvLeave(s) \/ ConvMsg(s)
         \/ RouteLock(s) \/ RouteCheck(s) \/ RoutePut(s) \/ Drain(s)

SpecOrder == InitOrder /\ [][NextOrder]_vars

\* the messages of the log's entries of kind ev of session s, in their order
LogOf(ev, s) ==
    LET sel == SelectSeq(hlog, LAMBDA e : e.from = ev /\ e.s = s)
    IN [i \in 1..Len(sel) |-> sel[i].msg]

\* w can be had from r by leaving entries out
RECURSIVE IsSubseq(_, _)
IsSubseq(w, r) ==
    IF w = << >> THEN TRUE
    ELSE IF r = << >> THEN FALSE
    ELSE IF Head(w) = Head(r) THEN IsSubseq(Tail(w), Tail(r))
    ELSE IsSubseq(w, Tail(r))

\* C26: message order is kept per sender and receiver: the messages a session
\* sends that are delivered are written to the target session's socket, and
\* wait on its queue, in the order the sender's session read them, each at
\* most once. (With two sessions everything written to one was read by the
\* other.)
C26_OrderKept ==
    scene = "order" =>
        \A r, c \in 1..2 :
            r # c => IsSubseq(LogOf("wrote", c) \o msgq[c], LogOf("read", r))

\* cameron's session has written "hi" and has "yo" queued behind it, as
\* andrei's session read them
C26_Witness ==
    /\ scene = "order"
    /\ \E r, c \in 1..2 :
         /\ r # c /\ Len(LogOf("read", r)) >= 2
         /\ LogOf("read", r)[1].text # LogOf("read", r)[2].text
         /\ LogOf("wrote", c) = <<LogOf("read", r)[1]>>
         /\ msgq[c] = <<LogOf("read", r)[2]>>

====
